---- MODULE Spec2Model ----
(***************************************************************************)
(* State-machine model of the OTA update client of                         *)
(* src/esp32/frozen/Pybytes/_OTA.py: OTA.update and the file operations    *)
(* it drives (get_file, backup_file, the commit rename, delete_file,       *)
(* write_firmware), over a filesystem that maps file names to contents.    *)
(***************************************************************************)
EXTENDS Integers, Sequences, FiniteSets, TLC

(***************************************************************************)
(* Bounds of the model.                                                    *)
(***************************************************************************)
\* file bodies are byte sequences over 1..MaxByte ...
MaxByte == 2
\* ... of length 0..MaxLen
MaxLen == 1
\* digests (and declared hashes) range over 0..HashSpace-1
HashSpace == 2
\* number of calls of update() in one behaviour
MaxUpdates == 2

(***************************************************************************)
(* Program constants.                                                      *)
(***************************************************************************)
\* `for _ in range(5)`
Retries == 5
\* `self.port = 443` for a firmware URL that names no port
DefaultPort == 443

(***************************************************************************)
(* Values.                                                                 *)
(***************************************************************************)
\* absolute paths a manifest may name as dst_path
Paths == {"/flash/a.txt", "/old.txt"}
\* the same files as the `delete` list names them ("/{}".format(f))
RelPaths == {"flash/a.txt", "old.txt"}

Bytes == 1..MaxByte
Contents == UNION {[1..n -> Bytes] : n \in 0..MaxLen}
Hashes == 0..(HashSpace - 1)

\* Python's None
None == [None |-> TRUE]

\* uhashlib.sha1(): h.update() folds every chunk into the running digest
RECURSIVE sha1(_, _)
sha1(h, data) ==
    IF data = <<>> THEN h
    ELSE sha1((2 * h + Head(data)) % HashSpace, Tail(data))

\* the hex digest get_data returns for the bytes it was fed
Digest(data) == sha1(0, data)

(***************************************************************************)
(* Strings that the code takes apart are sequences of characters.          *)
(***************************************************************************)
\* s.find(sep): the 0-based index of the first occurrence of sep, or -1
find(s, sep) ==
    LET at == {k \in 1..(Len(s) - Len(sep) + 1) : SubSeq(s, k, k + Len(sep) - 1) = sep}
    IN  IF at = {} THEN -1 ELSE (CHOOSE k \in at : \A j \in at : k <= j) - 1

\* s.split(sep): the pieces of s between the occurrences of sep, left to right
RECURSIVE split(_, _)
split(s, sep) ==
    IF find(s, sep) = -1 THEN <<s>>
    ELSE <<SubSeq(s, 1, find(s, sep))>>
            \o split(SubSeq(s, find(s, sep) + Len(sep) + 1, Len(s)), sep)

\* the value of a decimal digit
DigitVal(c) ==
    CASE c = "0" -> 0 [] c = "1" -> 1 [] c = "2" -> 2 [] c = "3" -> 3 [] c = "4" -> 4
      [] c = "5" -> 5 [] c = "6" -> 6 [] c = "7" -> 7 [] c = "8" -> 8 [] c = "9" -> 9

\* int(s) of a string of decimal digits
RECURSIVE int(_)
int(s) ==
    IF s = <<>> THEN 0
    ELSE 10 * int(SubSeq(s, 1, Len(s) - 1)) + DigitVal(s[Len(s)])

\* the firmware URLs a manifest may carry: "http://fw:81/f" names a port,
\* "https://fw2/f" names none
UrlWithPort == <<"h", "t", "t", "p", ":", "/", "/", "f", "w", ":", "8", "1", "/", "f">>
UrlWithoutPort == <<"h", "t", "t", "p", "s", ":", "/", "/", "f", "w", "2", "/", "f">>
FirmwareURLs == {UrlWithPort, UrlWithoutPort}

\* the ip and port the WiFiOTA object was constructed with: "srv", 80
InitialTarget == [ip |-> <<"s", "r", "v">>, port |-> 80]

(***************************************************************************)
(* The filesystem: a function from the names of the existing files to      *)
(* their contents.                                                         *)
(***************************************************************************)
Exists(f, n) == n \in DOMAIN f

\* os.remove(n) on an existing file
Remove(f, n) == [x \in DOMAIN f \ {n} |-> f[x]]

\* os.rename(a, b) with a existing
Rename(f, a, b) == [x \in (DOMAIN f \ {a}) \cup {b} |-> IF x = b THEN f[a] ELSE f[x]]

\* open(n, 'wb') followed by the writes of data
WriteFile(f, n, data) == [x \in DOMAIN f \cup {n} |-> IF x = n THEN data ELSE f[x]]

(***************************************************************************)
(* File names.                                                             *)
(***************************************************************************)
\* a staging that writes straight to the destination
new_path_direct(dst) == dst

\* "{}.new".format(f['dst_path'])
new_path(dst) == dst \o ".new"

\* "{}.bak".format(f['dst_path'])
bak_path(dst) == dst \o ".bak"

\* "/{}".format(f)
del_dest_path(f) == "/" \o f

\* "/{}.bak_del".format(f)
bak_del_path(f) == "/" \o f \o ".bak_del"

(***************************************************************************)
(* Manifests.  A manifest is a function from the keys it carries to their  *)
(* values; `"new" in manifest` is "new" \in DOMAIN manifest.               *)
(***************************************************************************)
FileEntry(p, h) == [URL |-> "http://server" \o p, dst_path |-> p, hash |-> h]

\* the sequences of distinct elements of S
Perms(S) == {s \in UNION {[1..n -> S] : n \in 0..Cardinality(S)} :
                \A a, b \in DOMAIN s : a # b => s[a] # s[b]}

Range(s) == {s[k] : k \in DOMAIN s}

\* the manifest with the keys K, listing the paths pn as new, pu as update
\* (with declared hashes hs), the relative paths pd as delete and the
\* firmware URL fw
MkManifest(K, pn, pu, pd, hs, fw) ==
    [k \in K |->
        CASE k = "new" -> [j \in DOMAIN pn |-> FileEntry(pn[j], hs[pn[j]])]
          [] k = "update" -> [j \in DOMAIN pu |-> FileEntry(pu[j], hs[pu[j]])]
          [] k = "delete" -> pd
          [] k = "firmware" -> [URL |-> fw]]

\* The shapes of the manifests a server sends or a caller supplies: each file
\* is named at most once (as new, as update or as delete); the key of an
\* empty new or update list may be present or missing.
AllShapes ==
    {t \in (SUBSET {"new", "update", "delete", "firmware"}) \X Perms(Paths)
            \X Perms(Paths) \X Perms(RelPaths) \X [Paths -> Hashes] \X FirmwareURLs :
        /\ Range(t[2]) \cap Range(t[3]) = {}
        /\ \A r \in Range(t[4]) : del_dest_path(r) \notin Range(t[2]) \cup Range(t[3])
        /\ t[2] # <<>> => "new" \in t[1]
        /\ t[3] # <<>> => "update" \in t[1]
        /\ (t[4] # <<>>) <=> ("delete" \in t[1])
        \* the declared hash of a path no list names is immaterial
        /\ \A p \in Paths \ (Range(t[2]) \cup Range(t[3])) : t[5][p] = 0
        \* so is the firmware URL of a manifest without the key
        /\ "firmware" \notin t[1] => t[6] = UrlWithPort}

\* the manifests of a server whose firmware is at one URL
Shapes == {t \in AllShapes : t[6] = UrlWithPort}

Manifests == {MkManifest(t[1], t[2], t[3], t[4], t[5], t[6]) : t \in Shapes}

\* the manifests that name the firmware by either URL, and at most one file
\* to update and one to delete
TargetShapes ==
    {t \in AllShapes : t[2] = <<>> /\ Len(t[3]) <= 1 /\ Len(t[4]) <= 1}

TargetManifests ==
    {MkManifest(t[1], t[2], t[3], t[4], t[5], t[6]) : t \in TargetShapes}

\* `not customManifest`: None and the empty dict are both falsy
Falsy(m) == m = None \/ DOMAIN m = {}

\* manifest['new'] + manifest['update']
Files(m) == m.new \o m.update

(***************************************************************************)
(* The operations on files.  Each gives the outcomes the call can have:    *)
(* ok is FALSE when the call raises, fs is the filesystem it leaves.       *)
(***************************************************************************)
\* try: os.remove(n) except OSError: pass
RemoveIfExists(f, n) == IF Exists(f, n) THEN Remove(f, n) ELSE f

\* the proper prefixes of data
Prefixes(data) == {SubSeq(data, 1, k) : k \in 0..(Len(data) - 1)}

\* WiFiOTA.get_data(req, dest_path=dest, hash=True): the transfer fails
\* before the file is opened (connect, send, open), or fails with only a
\* part of the body written, or completes and returns the digest of what
\* it wrote.
get_data_file(f, dest) ==
    {[ok |-> FALSE, fs |-> f, hash |-> 0]}
    \cup {[ok |-> FALSE, fs |-> WriteFile(f, dest, c), hash |-> 0] :
            c \in UNION {Prefixes(b) : b \in Contents}}
    \cup {[ok |-> TRUE, fs |-> WriteFile(f, dest, c), hash |-> Digest(c)] : c \in Contents}

\* a get_file that accepts any digest
HashMatches_any(hash, e) == TRUE

\* `if hash != f['hash']: raise`
HashMatches(hash, e) == hash = e.hash

\* OTA.get_file(f)
get_file(f, e) ==
    {[ok |-> r.ok /\ HashMatches(r.hash, e), dl |-> r.ok, fs |-> r.fs] :
        r \in get_data_file(RemoveIfExists(f, new_path(e.dst_path)), new_path(e.dst_path))}

\* a backup that copies the file and leaves it in place
backup_file_copy(f, e) ==
    IF Exists(f, e.dst_path)
    THEN [ok |-> TRUE, fs |-> WriteFile(f, bak_path(e.dst_path), f[e.dst_path])]
    ELSE [ok |-> FALSE, fs |-> RemoveIfExists(f, bak_path(e.dst_path))]

\* OTA.backup_file(f)
backup_file(f, e) ==
    LET f1 == RemoveIfExists(f, bak_path(e.dst_path))
    IN  IF Exists(f1, e.dst_path)
        THEN [ok |-> TRUE, fs |-> Rename(f1, e.dst_path, bak_path(e.dst_path))]
        ELSE [ok |-> FALSE, fs |-> f1]

\* os.rename(new_path, dest_path) of the commit loop
commit(f, e) ==
    IF Exists(f, new_path(e.dst_path))
    THEN [ok |-> TRUE, fs |-> Rename(f, new_path(e.dst_path), e.dst_path)]
    ELSE [ok |-> FALSE, fs |-> f]

\* OTA.delete_file(f)
delete_file(f, r) ==
    LET f1 == RemoveIfExists(f, bak_del_path(r))
    IN  IF Exists(f1, del_dest_path(r))
        THEN [ok |-> TRUE, fs |-> Rename(f1, del_dest_path(r), bak_del_path(r))]
        ELSE [ok |-> FALSE, fs |-> f1]

\* url = f['URL'].split("//")[1].split("/")[0]
url_of(f) == split(split(f.URL, <<"/", "/">>)[2], <<"/">>)[1]

\* a write_firmware that takes port 80 for a URL naming no port
target_of_http(f) ==
    IF find(url_of(f), <<":">>) > -1
    THEN [ip |-> split(url_of(f), <<":">>)[1], port |-> int(split(url_of(f), <<":">>)[2])]
    ELSE [ip |-> url_of(f), port |-> 80]

\* lines 190-195: the ip and port write_firmware stores on the object
target_of(f) ==
    IF find(url_of(f), <<":">>) > -1
    THEN [ip |-> split(url_of(f), <<":">>)[1], port |-> int(split(url_of(f), <<":">>)[2])]
    ELSE [ip |-> url_of(f), port |-> DefaultPort]

\* OTA.write_firmware(f): ip and port are set from the URL, then
\* get_data(..., hash=True, firmware=True): the transfer fails before
\* pycom.ota_start(), or fails after it (ota_finish is then never called),
\* or completes; the digest of the body is computed and dropped.
write_firmware(f) ==
    {[ok |-> FALSE, ota |-> "none", hash |-> 0, to |-> target_of(f)],
     [ok |-> FALSE, ota |-> "started", hash |-> 0, to |-> target_of(f)]}
    \cup {[ok |-> TRUE, ota |-> "finished", hash |-> Digest(c), to |-> target_of(f)] :
            c \in Contents}

(***************************************************************************)
(* The state.                                                              *)
(***************************************************************************)
VARIABLES
    fs,        \* the filesystem
    pc,        \* where update() stands
    custom,    \* the customManifest argument of the running update()
    manifest,  \* the local `manifest` of update()
    i,         \* the index of the running for loop (1-based)
    tries,     \* the get_file calls made for the entry being staged
    ret,       \* the value update() returned, -1 when it has returned none
    exit,      \* how the last update() ended ("" while it runs)
    updates,   \* the calls of update() so far
    obs,       \* what the running update() has done so far
    lastOp,    \* the operation the last step performed
    reapply,   \* how far a backup + commit, and its re-application, have got
    ip,        \* self.ip
    port,      \* self.port
    pristine,  \* dst_path -> the content it had before the first update(),
               \* for the files no commit has replaced and no delete_file moved
    gd,        \* the get_data() call under way, or the last one made
    nc         \* the update_device_network_config() call

vars == <<fs, pc, custom, manifest, i, tries, ret, exit, updates, obs, lastOp,
          reapply, ip, port, pristine, gd, nc>>

\* the state of update() and of the file operations
updateVars == <<fs, pc, custom, manifest, i, tries, ret, exit, updates, obs, lastOp,
                reapply, ip, port, pristine>>

\* get_data() has not been called
NoGetData ==
    [pc |-> "idle",           \* "idle", "connect", "setup" or "recv"
     calls |-> 0,             \* the calls made
     dest |-> FALSE,          \* dest_path is not None
     firmware |-> FALSE,      \* the firmware argument
     hash |-> FALSE,          \* the hash argument
     sock |-> "none",         \* the socket s: "none", "open" or "closed"
     fp |-> "none",           \* the file fp: "none" (None), "open" or "closed"
     ota |-> "none",          \* the flash-write session: "none", "started", "finished"
     h |-> FALSE,             \* h is not None
     ctx |-> 0,               \* the digest contexts created and not finalized
     resp |-> <<>>,           \* the bytes the server sends
     wire |-> <<>>,           \* those of them not yet received
     start_writing |-> FALSE,
     content |-> <<>>,        \* the bytearray `content`
     file |-> <<>>,           \* the bytes written to fp
     flash |-> <<>>,          \* the bytes given to pycom.ota_write
     fed |-> <<>>,            \* the bytes given to h.update
     out |-> "none",          \* how the last call ended: "returned" or "raised"
     at |-> ""]               \* where it raised

\* update_device_network_config() has not been called
NoNetConfig ==
    [pc |-> "idle",           \* "idle", "fetch", "update", "reset" or "done"
     config |-> <<>>,         \* the dict `config`: key -> value
     resp |-> None,           \* responseDetails
     fetched |-> FALSE,       \* urequest.get and .json() succeeded
     merged |-> FALSE,        \* the merge reached ujson.dumps
     stored |-> None,         \* what was written to /flash/pybytes_config.json
     reset |-> FALSE]         \* machine.reset() was called

\* no request was sent
Nowhere == [ip |-> <<>>, port |-> 0]

\* the transport target of the object
Target == [ip |-> ip, port |-> port]

NoOp == [op |-> "none", path |-> "", hash |-> 0, dl |-> FALSE, ok |-> FALSE,
         to |-> Nowhere]

\* the bookkeeping of an update() that starts on the filesystem f
FreshObs(f) ==
    [fs0 |-> f,          \* the filesystem when update() was called
     fetch |-> "no",     \* the manifest request: "no", "failed" or "ok"
     netReqs |-> 0,      \* get_data calls
     fsCalls |-> 0,      \* get_file, backup_file, rename and delete_file calls
     ota |-> "none",     \* the flash-write session: "none", "started", "finished"
     staged |-> <<>>,    \* dst_path -> content get_file verified
     backed |-> {},      \* dst_paths backup_file has renamed
     committed |-> {}]   \* dst_paths the commit loop has renamed to

\* no backup + commit is under way
NoReapply == [phase |-> "idle", base |-> <<>>, staged |-> <<>>, ok |-> FALSE]

SetKey(fn, k, v) == [x \in DOMAIN fn \cup {k} |-> IF x = k THEN v ELSE fn[x]]

\* before the first update(): "/old.txt" is there, "/flash/a.txt" may be;
\* no .new, .bak or .bak_del file is
InitialFilesystems == {[p \in S |-> <<1>>] : S \in {{"/old.txt"}, Paths}}

Init ==
    /\ fs \in InitialFilesystems
    /\ pc = "idle"
    /\ custom = None
    /\ manifest = None
    /\ i = 1
    /\ tries = 0
    /\ ret = -1
    /\ exit = ""
    /\ updates = 0
    /\ obs = FreshObs(fs)
    /\ lastOp = NoOp
    /\ reapply = NoReapply
    /\ ip = InitialTarget.ip
    /\ port = InitialTarget.port
    /\ pristine = fs
    /\ gd = NoGetData
    /\ nc = NoNetConfig

(***************************************************************************)
(* update(), step by step.  A step names what comes next: a phase          *)
(* ("stage", "backup", "commit", "delete", "firmware"), a return           *)
(* ("return0", "return1", "return2") or an exception leaving update()      *)
(* ("raised_...").                                                         *)
(***************************************************************************)
\* once the delete loop is done: the firmware step, or `return 2`
AfterDelete(m) == IF "firmware" \in DOMAIN m THEN "firmware" ELSE "return2"

\* once the file batch is done (or skipped): the delete loop, ...
AfterFiles(m) ==
    IF "delete" \in DOMAIN m /\ m.delete # <<>> THEN "delete" ELSE AfterDelete(m)

\* `if "new" in manifest and "update" in manifest:`
HasFileBatch(m) == "new" \in DOMAIN m /\ "update" \in DOMAIN m

\* an update that never sees the None manifest
IsNone_never(m) == FALSE

\* `if manifest is None:`
IsNone(m) == m = None

\* lines 87-93: `return 1` on None, else the first phase with work to do
Interpret(m) ==
    IF IsNone(m) THEN "return1"
    ELSE IF HasFileBatch(m) /\ Files(m) # <<>> THEN "stage"
    ELSE AfterFiles(m)

\* an except arm that swallows the error and goes on
AfterStage_swallow(ok, k, n, m) ==
    IF k < n THEN "stage"
    ELSE IF m.update # <<>> THEN "backup" ELSE "commit"

\* what follows the get_file call of entry k of n: `break` goes on with the
\* next entry (or the backup loop); the except arm returns 0
AfterStage(ok, k, n, m) ==
    IF ~ok THEN "return0"
    ELSE IF k < n THEN "stage"
    ELSE IF m.update # <<>> THEN "backup" ELSE "commit"

\* what follows backup_file of entry k of n
AfterBackup(ok, k, n) ==
    IF ~ok THEN "raised_backup" ELSE IF k < n THEN "backup" ELSE "commit"

\* what follows the rename of entry k of n
AfterCommit(ok, k, n, m) ==
    IF ~ok THEN "raised_commit" ELSE IF k < n THEN "commit" ELSE AfterFiles(m)

\* a delete loop that goes on after a failed delete_file
AfterDeleteFile_swallow(ok, k, n, m) ==
    IF k < n THEN "delete" ELSE AfterDelete(m)

\* what follows delete_file of entry k of n
AfterDeleteFile(ok, k, n, m) ==
    IF ~ok THEN "raised_delete" ELSE IF k < n THEN "delete" ELSE AfterDelete(m)

Phases == {"stage", "backup", "commit", "delete", "firmware"}

\* the control state after a step whose continuation is nxt; a step that
\* stays in its loop advances the index, one that leaves it resets it
Goto(nxt) ==
    /\ pc' = IF nxt \in Phases THEN nxt ELSE "done"
    /\ ret' = CASE nxt = "return0" -> 0
                [] nxt = "return1" -> 1
                [] nxt = "return2" -> 2
                [] OTHER -> ret
    /\ exit' = IF nxt \in Phases THEN exit ELSE nxt
    /\ i' = IF nxt = pc THEN i + 1 ELSE IF nxt \in Phases THEN 1 ELSE i

\* a call update(customManifest=cm): a truthy cm is taken as the manifest
update(cm) ==
    /\ pc \in {"idle", "done"}
    /\ updates < MaxUpdates
    /\ updates' = updates + 1
    /\ custom' = cm
    /\ obs' = FreshObs(fs)
    /\ tries' = 0
    /\ lastOp' = NoOp
    /\ IF Falsy(cm)
       THEN /\ pc' = "manifest"
            /\ manifest' = None
            /\ ret' = -1
            /\ exit' = ""
            /\ i' = 1
       ELSE /\ manifest' = cm
            /\ pc' = IF Interpret(cm) \in Phases THEN Interpret(cm) ELSE "done"
            /\ ret' = IF Interpret(cm) = "return2" THEN 2 ELSE -1
            /\ exit' = IF Interpret(cm) \in Phases THEN "" ELSE Interpret(cm)
            /\ i' = 1
    /\ UNCHANGED <<fs, reapply, ip, port, pristine>>
    /\ UNCHANGED <<gd, nc>>

\* get_update_manifest(): one get_data request; it raises (transport or
\* ujson.loads error: update returns 0) or yields None or a manifest, one of
\* those (Ms) the server has
get_update_manifest(Ms) ==
    /\ pc = "manifest"
    /\ \/ /\ obs' = [obs EXCEPT !.netReqs = @ + 1, !.fetch = "failed"]
          /\ Goto("return0")
          /\ UNCHANGED manifest
       \/ /\ obs' = [obs EXCEPT !.netReqs = @ + 1, !.fetch = "ok"]
          /\ \E m \in Ms \cup {None} :
                /\ manifest' = m
                /\ Goto(Interpret(m))
    /\ lastOp' = [NoOp EXCEPT !.op = "get_update_manifest", !.to = Target]
    /\ UNCHANGED <<fs, custom, tries, updates, reapply, ip, port, pristine>>
    /\ UNCHANGED <<gd, nc>>

\* one iteration of `for _ in range(5)` for entry i of new + update
stage ==
    /\ pc = "stage"
    /\ tries < Retries
    /\ LET e == Files(manifest)[i]
       IN  \E r \in get_file(fs, e) :
             LET nxt == AfterStage(r.ok, i, Len(Files(manifest)), manifest)
             IN  /\ fs' = r.fs
                 /\ lastOp' = [op |-> "get_file", path |-> e.dst_path, hash |-> e.hash,
                               dl |-> r.dl, ok |-> r.ok, to |-> Target]
                 /\ obs' = [obs EXCEPT !.netReqs = @ + 1, !.fsCalls = @ + 1,
                              !.staged = IF r.ok
                                         THEN SetKey(@, e.dst_path, r.fs[new_path(e.dst_path)])
                                         ELSE @]
                 /\ tries' = IF nxt = "stage" THEN 0 ELSE tries + 1
                 /\ Goto(nxt)
    /\ UNCHANGED <<custom, manifest, updates, reapply, ip, port, pristine>>
    /\ UNCHANGED <<gd, nc>>

\* one iteration of `for f in manifest['update']: self.backup_file(f)`
backup ==
    /\ pc = "backup"
    /\ LET e == manifest.update[i]
           r == backup_file(fs, e)
       IN  /\ fs' = r.fs
           /\ lastOp' = [op |-> "backup_file", path |-> e.dst_path, hash |-> e.hash,
                         dl |-> FALSE, ok |-> r.ok, to |-> Nowhere]
           /\ obs' = [obs EXCEPT !.fsCalls = @ + 1,
                        !.backed = IF r.ok THEN @ \cup {e.dst_path} ELSE @]
           /\ Goto(AfterBackup(r.ok, i, Len(manifest.update)))
    /\ UNCHANGED <<custom, manifest, tries, updates, reapply, ip, port, pristine>>
    /\ UNCHANGED <<gd, nc>>

\* one iteration of the loop renaming the .new files
commit_step ==
    /\ pc = "commit"
    /\ LET e == Files(manifest)[i]
           r == commit(fs, e)
       IN  /\ fs' = r.fs
           /\ lastOp' = [op |-> "commit", path |-> e.dst_path, hash |-> e.hash,
                         dl |-> FALSE, ok |-> r.ok, to |-> Nowhere]
           /\ obs' = [obs EXCEPT !.fsCalls = @ + 1,
                        !.committed = IF r.ok THEN @ \cup {e.dst_path} ELSE @]
           /\ pristine' = IF r.ok THEN RemoveIfExists(pristine, e.dst_path) ELSE pristine
           /\ Goto(AfterCommit(r.ok, i, Len(Files(manifest)), manifest))
    /\ UNCHANGED <<custom, manifest, tries, updates, reapply, ip, port>>
    /\ UNCHANGED <<gd, nc>>

\* one iteration of `for f in manifest['delete']: self.delete_file(f)`
delete ==
    /\ pc = "delete"
    /\ LET f == manifest.delete[i]
           r == delete_file(fs, f)
       IN  /\ fs' = r.fs
           /\ lastOp' = [op |-> "delete_file", path |-> f, hash |-> 0,
                         dl |-> FALSE, ok |-> r.ok, to |-> Nowhere]
           /\ obs' = [obs EXCEPT !.fsCalls = @ + 1]
           /\ pristine' = IF r.ok THEN RemoveIfExists(pristine, del_dest_path(f)) ELSE pristine
           /\ Goto(AfterDeleteFile(r.ok, i, Len(manifest.delete), manifest))
    /\ UNCHANGED <<custom, manifest, tries, updates, reapply, ip, port>>
    /\ UNCHANGED <<gd, nc>>

\* `if "firmware" in manifest: self.write_firmware(manifest['firmware'])`,
\* then `return 2`
firmware ==
    /\ pc = "firmware"
    /\ \E r \in write_firmware(manifest.firmware) :
          /\ ip' = r.to.ip
          /\ port' = r.to.port
          /\ obs' = [obs EXCEPT !.netReqs = @ + 1, !.ota = r.ota]
          /\ lastOp' = [NoOp EXCEPT !.op = "write_firmware", !.hash = r.hash,
                                    !.dl = r.ok, !.ok = r.ok, !.to = r.to]
          /\ Goto(IF r.ok THEN "return2" ELSE "raised_firmware")
    /\ UNCHANGED <<fs, custom, manifest, tries, updates, reapply, pristine>>
    /\ UNCHANGED <<gd, nc>>

Next ==
    \/ \E cm \in Manifests \cup {None} : update(cm)
    \/ get_update_manifest(Manifests)
    \/ stage
    \/ backup
    \/ commit_step
    \/ delete
    \/ firmware

Spec == Init /\ [][Next]_vars

(***************************************************************************)
(* update() against a server whose manifests name the firmware by either   *)
(* URL.                                                                    *)
(***************************************************************************)
NextTarget ==
    \/ \E cm \in TargetManifests \cup {None} : update(cm)
    \/ get_update_manifest(TargetManifests)
    \/ stage
    \/ backup
    \/ commit_step
    \/ delete
    \/ firmware

SpecTarget == Init /\ [][NextTarget]_vars

(***************************************************************************)
(* The file operations called one by one, in any order, for one entry:     *)
(* get_file(f), backup_file(f) and the commit rename of f's .new file.     *)
(* `reapply` follows a backup_file + commit that both succeeded and what   *)
(* is run for the same entry after them.                                   *)
(***************************************************************************)
\* the entry the operations are called for
TheEntry == manifest.update[1]

\* a backup_file + commit has just fully succeeded
Applied(ra) ==
    \/ ra.phase = "applied"
    \/ ra.phase \in {"re_done", "rs_done"} /\ ra.ok

\* reapply after the call op, which left the filesystem f2 and raised iff ~ok:
\*   idle -backup ok-> backed -commit ok-> applied (base: what dst_path holds)
\*   applied -backup-> re_backed -commit-> re_done          (re-applied as is)
\*   applied -get_file ok-> restaged -backup-> rs_backed -commit-> rs_done
StepReapply(ra, op, ok, f2) ==
    LET dst == TheEntry.dst_path
        base == IF Applied(ra) /\ ra.phase # "applied" THEN fs[dst] ELSE ra.base
    IN  CASE Applied(ra) /\ op = "backup_file" ->
                [phase |-> "re_backed", base |-> base, staged |-> <<>>, ok |-> ok]
          [] Applied(ra) /\ op = "get_file" /\ ok ->
                [phase |-> "restaged", base |-> base,
                 staged |-> f2[new_path(dst)], ok |-> TRUE]
          [] ra.phase = "re_backed" /\ op = "commit" ->
                [ra EXCEPT !.phase = "re_done", !.ok = ra.ok /\ ok]
          [] ra.phase = "restaged" /\ op = "backup_file" ->
                [ra EXCEPT !.phase = "rs_backed", !.ok = ok]
          [] ra.phase = "rs_backed" /\ op = "commit" ->
                [ra EXCEPT !.phase = "rs_done", !.ok = ra.ok /\ ok]
          [] ra.phase = "backed" /\ op = "commit" /\ ok ->
                [phase |-> "applied", base |-> f2[dst], staged |-> <<>>, ok |-> TRUE]
          [] OTHER ->
                IF op = "backup_file" /\ ok
                THEN [phase |-> "backed", base |-> <<>>, staged |-> <<>>, ok |-> TRUE]
                ELSE NoReapply

InitOps ==
    /\ fs \in InitialFilesystems
    /\ pc = "ops"
    /\ custom = None
    /\ manifest \in {[new |-> <<>>, update |-> <<FileEntry("/flash/a.txt", h)>>] :
                        h \in Hashes}
    /\ i = 1
    /\ tries = 0
    /\ ret = -1
    /\ exit = ""
    /\ updates = 0
    /\ obs = FreshObs(fs)
    /\ lastOp = NoOp
    /\ reapply = NoReapply
    /\ ip = InitialTarget.ip
    /\ port = InitialTarget.port
    /\ pristine = fs
    /\ gd = NoGetData
    /\ nc = NoNetConfig

\* self.get_file(f)
call_get_file ==
    /\ pc = "ops"
    /\ \E r \in get_file(fs, TheEntry) :
          /\ fs' = r.fs
          /\ lastOp' = [op |-> "get_file", path |-> TheEntry.dst_path,
                        hash |-> TheEntry.hash, dl |-> r.dl, ok |-> r.ok, to |-> Target]
          /\ reapply' = StepReapply(reapply, "get_file", r.ok, r.fs)
    /\ UNCHANGED <<pc, custom, manifest, i, tries, ret, exit, updates, obs, ip, port, pristine>>
    /\ UNCHANGED <<gd, nc>>

\* self.backup_file(f)
call_backup_file ==
    /\ pc = "ops"
    /\ LET r == backup_file(fs, TheEntry)
       IN  /\ fs' = r.fs
           /\ lastOp' = [op |-> "backup_file", path |-> TheEntry.dst_path,
                         hash |-> TheEntry.hash, dl |-> FALSE, ok |-> r.ok, to |-> Nowhere]
           /\ reapply' = StepReapply(reapply, "backup_file", r.ok, r.fs)
    /\ UNCHANGED <<pc, custom, manifest, i, tries, ret, exit, updates, obs, ip, port, pristine>>
    /\ UNCHANGED <<gd, nc>>

\* os.rename(new_path, dest_path) for f
call_commit ==
    /\ pc = "ops"
    /\ LET r == commit(fs, TheEntry)
       IN  /\ fs' = r.fs
           /\ lastOp' = [op |-> "commit", path |-> TheEntry.dst_path,
                         hash |-> TheEntry.hash, dl |-> FALSE, ok |-> r.ok, to |-> Nowhere]
           /\ reapply' = StepReapply(reapply, "commit", r.ok, r.fs)
           /\ pristine' = IF r.ok THEN RemoveIfExists(pristine, TheEntry.dst_path)
                          ELSE pristine
    /\ UNCHANGED <<pc, custom, manifest, i, tries, ret, exit, updates, obs, ip, port>>
    /\ UNCHANGED <<gd, nc>>

NextOps ==
    \/ call_get_file
    \/ call_backup_file
    \/ call_commit

SpecOps == InitOps /\ [][NextOps]_vars

(***************************************************************************)
(* WiFiOTA.get_data(req, dest_path, hash, firmware), step by step: the     *)
(* socket is created and connected and the request sent; the sink is set   *)
(* up and the digest context created; the response is received in chunks,  *)
(* each cut at the header/body boundary, written to the sink and fed to    *)
(* the digest; at the end of the stream everything is closed.              *)
(***************************************************************************)
\* `s.recv(50)`
RecvSize == 50
\* get_data calls in one behaviour
MaxCalls == 2

\* b'\r\n\r\n'
SEP == <<13, 10, 13, 10>>

\* what a server sends before the separator, and after it
Headers == {<<1>>, <<1, 13, 10, 2>>}
Bodies == {<<>>, <<1>>, <<1, 2>>, <<1>> \o SEP \o <<2>>}

\* the responses: headers, separator, body; and one with no separator
Responses == {hd \o SEP \o b : hd \in Headers, b \in Bodies} \cup {<<1>>}

Min(a, b) == IF a < b THEN a ELSE b

\* an except arm that leaves the digest context open
except_arm_nodigest(g, at) ==
    [g EXCEPT !.pc = "idle", !.out = "raised", !.at = at]

\* lines 295-301: `if h is not None: h.digest()`, then `raise e`
except_arm(g, at) ==
    [g EXCEPT !.pc = "idle", !.out = "raised", !.at = at,
              !.ctx = IF g.h THEN @ - 1 ELSE @]

\* a get_data that accepts dest_path together with firmware
invalid_args_never(g) == FALSE

\* lines 250-253: `if dest_path is not None: if firmware: raise`
invalid_args(g) == g.dest /\ g.firmware

\* lines 269-271: start_writing after the chunk `result`
Started(g, result) == g.start_writing \/ find(result, SEP) > -1

\* line 272: what of the chunk is body
BodyPart(g, result) ==
    IF ~g.start_writing /\ find(result, SEP) > -1
    THEN split(result, SEP)[2]
    ELSE result

\* lines 275-283: the chunk goes to the flash-write session, to `content`
\* or to fp, and to the digest when hash is set
Sink(g) == IF g.firmware THEN "flash" ELSE IF g.fp = "none" THEN "content" ELSE "file"

process(g, result, rest) ==
    IF Started(g, result)
    THEN [g EXCEPT !.wire = rest,
                   !.start_writing = TRUE,
                   ![Sink(g)] = @ \o BodyPart(g, result),
                   !.fed = IF g.hash THEN @ \o BodyPart(g, result) ELSE @]
    ELSE [g EXCEPT !.wire = rest]

\* lines 287-311: s.close(), fp.close(), pycom.ota_finish(), h.digest(), return
finish(g) ==
    [g EXCEPT !.pc = "idle", !.out = "returned",
              !.sock = "closed",
              !.fp = IF @ = "open" THEN "closed" ELSE @,
              !.ota = IF g.firmware THEN "finished" ELSE @,
              !.ctx = @ - 1]

\* lines 234-239: a call; the socket is created
get_data(dest, fw, hash) ==
    /\ gd.pc = "idle"
    /\ gd.calls < MaxCalls
    /\ gd' = [NoGetData EXCEPT !.pc = "connect", !.calls = gd.calls + 1,
                               !.dest = dest, !.firmware = fw, !.hash = hash,
                               !.sock = "open", !.ctx = gd.ctx,
                               !.out = gd.out, !.at = gd.at]
    /\ UNCHANGED <<updateVars, nc>>

\* lines 240-246: connect, wrap, send; an error here is raised outside the try
connect ==
    /\ gd.pc = "connect"
    /\ \/ gd' = [gd EXCEPT !.pc = "idle", !.out = "raised", !.at = "connect"]
       \/ \E r \in Responses : gd' = [gd EXCEPT !.pc = "setup", !.resp = r, !.wire = r]
    /\ UNCHANGED <<updateVars, nc>>

\* lines 248-260: the argument check, open(), pycom.ota_start(), uhashlib.sha1()
setup ==
    /\ gd.pc = "setup"
    /\ IF invalid_args(gd)
       THEN gd' = except_arm(gd, "args")
       ELSE \/ gd.dest /\ gd' = except_arm(gd, "open")
            \/ /\ gd.firmware
               /\ gd' = except_arm([gd EXCEPT !.fp = IF gd.dest THEN "open" ELSE @],
                                   "ota_start")
            \/ gd' = [gd EXCEPT !.pc = "recv",
                                !.fp = IF gd.dest THEN "open" ELSE @,
                                !.ota = IF gd.firmware THEN "started" ELSE @,
                                !.h = TRUE,
                                !.ctx = @ + 1]
    /\ UNCHANGED <<updateVars, nc>>

\* lines 263-285: one s.recv(50) and the loop body for its result; an empty
\* result ends the loop and the call (lines 287-311)
recv ==
    /\ gd.pc = "recv"
    /\ \/ gd' = except_arm(gd, "recv")
       \/ gd.wire = <<>> /\ gd' = finish(gd)
       \/ \E k \in 1..Min(RecvSize, Len(gd.wire)) :
             LET result == SubSeq(gd.wire, 1, k)
                 rest == SubSeq(gd.wire, k + 1, Len(gd.wire))
             IN  \/ /\ Started(gd, result)
                    /\ gd' = except_arm([gd EXCEPT !.wire = rest, !.start_writing = TRUE],
                                        "write")
                 \/ gd' = process(gd, result, rest)
    /\ UNCHANGED <<updateVars, nc>>

NextGet ==
    \/ \E dest, fw, hash \in BOOLEAN : get_data(dest, fw, hash)
    \/ connect
    \/ setup
    \/ recv

SpecGet == Init /\ [][NextGet]_vars

(***************************************************************************)
(* WiFiOTA.update_device_network_config(fcota, config): the device's       *)
(* network configuration is fetched, merged into `config` and written to   *)
(* /flash/pybytes_config.json by update_network_config, and the device is  *)
(* reset.  A dict is a function from its keys to their values.             *)
(***************************************************************************)
\* the dicts `config` a caller passes: with or without wifi, lte and lora
Configs ==
    {[k \in {"device_id"} \cup S |->
        IF k = "lora" THEN [otaa |-> "old", abp |-> "old"] ELSE "old"] :
            S \in SUBSET {"wifi", "lte", "lora"}}

\* the values of 'lora' in a response: complete, or lacking 'abp'
Loras == {[otaa |-> "new", abp |-> "new"], [otaa |-> "new"]}

\* the values of 'networkConfig' in a response
NetConfs ==
    UNION {{[k \in S |-> IF k = "lora" THEN l ELSE "new"] : l \in Loras} :
              S \in SUBSET {"networkPreferences", "wifi", "lte", "lora"}}

\* responseDetails: a dict without 'networkConfig', or with it
NetResponses == {<<>>} \cup {[networkConfig |-> n] : n \in NetConfs}

\* del d[k]
DelKey(d, k) == [x \in DOMAIN d \ {k} |-> d[x]]

\* lines 333-336 (and 338-341): the key is taken over from netConf, or
\* removed from config when netConf has none
TakeOver(c, netConf, k) ==
    IF k \in DOMAIN netConf THEN SetKey(c, k, netConf[k])
    ELSE IF k \in DOMAIN c THEN DelKey(c, k) ELSE c

\* lines 331-349 on the dict c: ok is FALSE when a key is missing
\* (KeyError), config is the dict as the lines left it
merge(c, netConf) ==
    IF "networkPreferences" \notin DOMAIN netConf
    THEN [ok |-> FALSE, config |-> c]
    ELSE LET c1 == SetKey(c, "network_preferences", netConf.networkPreferences)
             c2 == TakeOver(c1, netConf, "wifi")
             c3 == TakeOver(c2, netConf, "lte")
         IN  IF "lora" \in DOMAIN netConf
             THEN IF {"otaa", "abp"} \subseteq DOMAIN netConf.lora
                  THEN [ok |-> TRUE,
                        config |-> SetKey(c3, "lora", [otaa |-> netConf.lora.otaa,
                                                       abp |-> netConf.lora.abp])]
                  ELSE [ok |-> FALSE, config |-> c3]
             ELSE [ok |-> TRUE, config |-> TakeOver(c3, netConf, "lora")]

\* ujson.dumps(config): the JSON text of the dict
dumps(c) == [json |-> c]

\* a call update_device_network_config(fcota, config)
update_device_network_config(config) ==
    /\ nc.pc = "idle"
    /\ nc' = [nc EXCEPT !.pc = "fetch", !.config = config]
    /\ UNCHANGED <<updateVars, gd>>

\* lines 319-321: urequest.get and .json(); an error goes to the except arm
\* of line 325, which logs it
fetch ==
    /\ nc.pc = "fetch"
    /\ \/ nc' = [nc EXCEPT !.pc = "done"]
       \/ \E r \in NetResponses :
             nc' = [nc EXCEPT !.pc = "update", !.resp = r, !.fetched = TRUE]
    /\ UNCHANGED <<updateVars, gd>>

\* update_network_config(letResp, fcota, config): every error inside it is
\* caught and logged by its own except arm (lines 354-355), so it always
\* returns
update_network_config ==
    /\ nc.pc = "update"
    /\ IF "networkConfig" \notin DOMAIN nc.resp
       THEN nc' = [nc EXCEPT !.pc = "reset"]
       ELSE LET m == merge(nc.config, nc.resp.networkConfig)
            IN  IF ~m.ok
                THEN nc' = [nc EXCEPT !.pc = "reset", !.config = m.config]
                ELSE \* fcota.update_file_content raises, or writes the file
                     \/ nc' = [nc EXCEPT !.pc = "reset", !.config = m.config,
                                         !.merged = TRUE]
                     \/ nc' = [nc EXCEPT !.pc = "reset", !.config = m.config,
                                         !.merged = TRUE, !.stored = dumps(m.config)]
    /\ UNCHANGED <<updateVars, gd>>

\* line 324: machine.reset()
reset ==
    /\ nc.pc = "reset"
    /\ nc' = [nc EXCEPT !.pc = "done", !.reset = TRUE]
    /\ UNCHANGED <<updateVars, gd>>

NextNet ==
    \/ \E config \in Configs : update_device_network_config(config)
    \/ fetch
    \/ update_network_config
    \/ reset

SpecNet == Init /\ [][NextNet]_vars

(***************************************************************************)
(* Properties of update().                                                 *)
(***************************************************************************)
\* the file entries a manifest lists, under either key
Entries(m) ==
    (IF "new" \in DOMAIN m THEN m.new ELSE <<>>)
        \o (IF "update" \in DOMAIN m THEN m.update ELSE <<>>)

\* the names holding the original data of dst_path p
Originals(p) == {p, bak_path(p), p \o ".bak_del"}

\* the file n is in f2 what it is in f1
Same(f1, f2, n) ==
    /\ Exists(f1, n) <=> Exists(f2, n)
    /\ Exists(f1, n) => f1[n] = f2[n]

\* update() returned 0 from the except arm of the staging loop
StageFailed == exit = "return0" /\ lastOp.op = "get_file"

\* get_file has returned normally, with a matching digest, for every entry
StagedAll ==
    /\ manifest # None
    /\ HasFileBatch(manifest)
    /\ \A k \in DOMAIN Files(manifest) :
          LET e == Files(manifest)[k]
          IN  /\ e.dst_path \in DOMAIN obs.staged
              /\ Digest(obs.staged[e.dst_path]) = e.hash

\* backup_file has completed for every entry of update
BackedAll ==
    /\ manifest # None
    /\ HasFileBatch(manifest)
    /\ \A k \in DOMAIN manifest.update : manifest.update[k].dst_path \in obs.backed

\* C1: within an update attempt no backup_file rename happens before
\* get_file has succeeded, with a matching hash, for every entry of
\* new ++ update, and no .new file is renamed to its dst_path before
\* backup_file has completed for every entry of update.
C1_PhaseOrder ==
    /\ obs.backed # {} => StagedAll
    /\ obs.committed # {} => StagedAll /\ BackedAll

\* an attempt that staged two entries, backed one up and committed both
C1_Witness ==
    /\ exit = "return2"
    /\ obs.committed = Paths
    /\ obs.backed # {}

\* C2: while the batch is staged, and after a staging failure aborted the
\* attempt, every dst_path, .bak and .bak_del file is what it was when
\* update() was called: staging writes .new files only.
C2_StagingLeavesOriginals ==
    (pc = "stage" \/ StageFailed) =>
        \A p \in Paths : \A n \in Originals(p) : Same(obs.fs0, fs, n)

\* a second attempt aborted in staging after it wrote a .new file, on a
\* filesystem holding a .bak and a .bak_del file of the first attempt
C2_Witness ==
    /\ StageFailed
    /\ fs # obs.fs0
    /\ \E p \in Paths : Exists(fs, bak_path(p))
    /\ \E p \in Paths : Exists(fs, p \o ".bak_del")

\* C3 (as claimed): an update attempt is aborted in staging only after the
\* 5th consecutive failed get_file call of one entry.
C3_AbortOnlyAfterFiveFailures == StageFailed => tries = Retries

\* C4: get_file returns normally exactly when the transfer completed and the
\* digest of the content it left at the .new path equals the declared hash;
\* and whenever a dst_path receives content (a file appears there or its
\* content changes), the step is the commit rename of an entry naming that
\* dst_path and the digest of the content equals that entry's declared hash.
\* So what a dst_path holds is what it held before, or verified content.
C4_IntegrityGate ==
    /\ [](lastOp.op = "get_file" =>
            (lastOp.ok <=>
                /\ lastOp.dl
                /\ Exists(fs, new_path(lastOp.path))
                /\ Digest(fs[new_path(lastOp.path)]) = lastOp.hash))
    /\ [][\A p \in Paths :
            (Exists(fs', p) /\ (~Exists(fs, p) \/ fs'[p] # fs[p])) =>
                /\ pc = "commit"
                /\ Files(manifest)[i].dst_path = p
                /\ Digest(fs'[p]) = Files(manifest)[i].hash]_vars

\* an attempt that was aborted by a hash mismatch after an earlier attempt
\* had committed a file whose content differs from the original one
C4_Witness ==
    /\ StageFailed
    /\ lastOp.dl
    /\ updates = 2
    /\ \E p \in Paths : Exists(fs, p) /\ fs[p] # <<1>>

\* C5 (as claimed): for a manifest with new and/or update entries whose
\* downloads all matched (and whose update targets exist), update returns 2,
\* each dst_path holds the downloaded content and each update entry's .bak
\* holds what dst_path held before the attempt.
C5_AppliedInstallsEveryEntry ==
    (/\ pc = "done"
     /\ manifest # None
     /\ Entries(manifest) # <<>>
     /\ exit \notin {"return0", "raised_delete", "raised_firmware"}
     /\ "update" \in DOMAIN manifest =>
            \A k \in DOMAIN manifest.update :
                Exists(obs.fs0, manifest.update[k].dst_path))
    => /\ ret = 2
       /\ \A k \in DOMAIN Entries(manifest) :
             LET p == Entries(manifest)[k].dst_path
             IN  /\ p \in DOMAIN obs.staged
                 /\ Exists(fs, p)
                 /\ fs[p] = obs.staged[p]
       /\ "update" \in DOMAIN manifest =>
             \A k \in DOMAIN manifest.update :
                LET p == manifest.update[k].dst_path
                IN  Exists(fs, bak_path(p)) /\ fs[bak_path(p)] = obs.fs0[p]

\* C6 (as claimed): when a listed file entry was not staged the outcome is
\* 0, and 2 is returned only when every listed file entry was staged and
\* committed.
C6_UnstagedEntryFails ==
    (pc = "done" /\ manifest # None) =>
        \A k \in DOMAIN Entries(manifest) :
            LET p == Entries(manifest)[k].dst_path
            IN  /\ p \notin DOMAIN obs.staged => ret = 0
                /\ ret = 2 => p \in DOMAIN obs.staged /\ p \in obs.committed

\* the attempt downloaded no file and touched neither files nor flash
NoSideEffects ==
    /\ fs = obs.fs0
    /\ obs.fsCalls = 0
    /\ obs.ota = "none"
    /\ obs.netReqs = 1

\* C7: when the fetched manifest is None update returns 1, and when the
\* fetch or the parse fails it returns 0; either way the manifest request is
\* the only request made and no file or flash operation was performed.
C7_NoneAndFetchFailure ==
    /\ (pc = "done" /\ obs.fetch = "ok" /\ manifest = None) => ret = 1 /\ NoSideEffects
    /\ (pc = "done" /\ obs.fetch = "failed") => ret = 0 /\ NoSideEffects

\* a second attempt that fetched None, on a filesystem the first one changed
C7_Witness ==
    /\ pc = "done"
    /\ obs.fetch = "ok"
    /\ manifest = None
    /\ ret = 1
    /\ fs \notin InitialFilesystems

\* C8 (as claimed): a supplied custom manifest is the manifest interpreted
\* and no manifest request is sent for it; a manifest with none of the four
\* keys yields 2 without touching files or flash.
C8_CustomManifestIsInterpreted ==
    /\ (pc \notin {"idle", "manifest"} /\ custom # None) =>
            manifest = custom /\ obs.fetch = "no"
    /\ (pc = "done" /\ manifest # None /\ DOMAIN manifest = {} /\ obs.fetch # "failed") =>
            ret = 2 /\ fs = obs.fs0 /\ obs.fsCalls = 0 /\ obs.ota = "none"

\* C9 (as claimed): a delete_file(f) call moves an existing /f to
\* /f.bak_del, and a repeated call that finds /f gone leaves the .bak_del
\* file of the earlier call, with its content, on disk.
C9_DeleteKeepsData ==
    [][pc = "delete" =>
          LET d == del_dest_path(manifest.delete[i])
              b == bak_del_path(manifest.delete[i])
          IN  /\ Exists(fs, d) =>
                    ~Exists(fs', d) /\ Exists(fs', b) /\ fs'[b] = fs[d]
              /\ (~Exists(fs, d) /\ Exists(fs, b)) =>
                    Exists(fs', b) /\ fs'[b] = fs[b]]_vars

(***************************************************************************)
(* Properties of the file operations called one by one (SpecOps).          *)
(***************************************************************************)
\* C10 (as claimed): after a fully successful backup_file + commit of an
\* entry, running backup_file and the commit rename for it again leaves
\* dst_path existing with the same content and .bak holding that content,
\* the immediately preceding version.
C10_ReapplyIsIdempotent ==
    reapply.phase = "re_done" =>
        /\ Exists(fs, TheEntry.dst_path)
        /\ fs[TheEntry.dst_path] = reapply.base
        /\ Exists(fs, bak_path(TheEntry.dst_path))
        /\ fs[bak_path(TheEntry.dst_path)] = reapply.base

\* C10 (amended): re-running backup_file + the commit rename alone moves the
\* file to .bak and then raises, the .new file having been consumed:
\* dst_path is left absent, .bak holds the preceding version.  With the
\* entry staged again first (get_file succeeded), both succeed: dst_path
\* holds the re-staged content, whose digest is the declared hash, and .bak
\* holds the immediately preceding version.
C10_ReapplyNeedsRestaging ==
    /\ reapply.phase = "re_done" =>
          /\ ~reapply.ok
          /\ lastOp.op = "commit" /\ ~lastOp.ok
          /\ ~Exists(fs, TheEntry.dst_path)
          /\ Exists(fs, bak_path(TheEntry.dst_path))
          /\ fs[bak_path(TheEntry.dst_path)] = reapply.base
    /\ reapply.phase = "rs_done" =>
          /\ reapply.ok
          /\ Exists(fs, TheEntry.dst_path)
          /\ fs[TheEntry.dst_path] = reapply.staged
          /\ Digest(fs[TheEntry.dst_path]) = TheEntry.hash
          /\ Exists(fs, bak_path(TheEntry.dst_path))
          /\ fs[bak_path(TheEntry.dst_path)] = reapply.base

\* a re-application after restaging that installed other content than the
\* preceding version, which is now at .bak
C10_Witness ==
    /\ reapply.phase = "rs_done"
    /\ reapply.staged # reapply.base
    /\ fs[bak_path(TheEntry.dst_path)] = reapply.base

(***************************************************************************)
(* Properties of the outcome of update() (Spec).                           *)
(***************************************************************************)
\* C11 (as claimed): whenever an update attempt has ended, by a return or by
\* an error leaving update(), either every entry of new ++ update has been
\* committed to its dst_path or no dst_path has been renamed away (by
\* backup_file) or replaced (by the commit rename).
C11_NoPartialApplication ==
    (pc = "done" /\ manifest # None) =>
        \/ \A k \in DOMAIN Entries(manifest) :
              Entries(manifest)[k].dst_path \in obs.committed
        \/ obs.backed = {} /\ obs.committed = {}

\* C12 (as claimed): an update attempt ends with exactly one of the values
\* 0, 1, 2 returned; no error leaves update(); and 2 is returned only when
\* every step the manifest calls for has completed.
C12_SingleOutcomeCode ==
    pc = "done" =>
        /\ ret \in {0, 1, 2}
        /\ exit \in {"return0", "return1", "return2"}
        /\ ret = 2 => obs.ota # "started"

\* the content c is on disk at the dst_path p or at its .bak
Kept(p, c) ==
    \/ Exists(fs, p) /\ fs[p] = c
    \/ Exists(fs, bak_path(p)) /\ fs[bak_path(p)] = c

\* C19 (as claimed): across the update attempts, for every entry of update
\* the content its dst_path had before the first attempt is on disk at
\* dst_path or at dst_path + ".bak" as long as no commit has replaced it.
C19_OriginalSurvivesRerun ==
    (manifest # None /\ "update" \in DOMAIN manifest) =>
        \A k \in DOMAIN manifest.update :
            LET p == manifest.update[k].dst_path
            IN  p \in DOMAIN pristine => Kept(p, pristine[p])

\* every file operation the code runs for the manifest has completed: the
\* file batch of line 92 is staged, backed up and committed, the files of
\* the delete list are moved to their .bak_del
FilePhasesDone ==
    /\ manifest # None
    /\ HasFileBatch(manifest) =>
          /\ StagedAll
          /\ BackedAll
          /\ \A k \in DOMAIN Files(manifest) :
                Files(manifest)[k].dst_path \in obs.committed
    /\ "delete" \in DOMAIN manifest =>
          \A k \in DOMAIN manifest.delete :
             /\ ~Exists(fs, del_dest_path(manifest.delete[k]))
             /\ Exists(fs, bak_del_path(manifest.delete[k]))

\* C17: a flash-write session is started only once every stage, backup and
\* commit of the file batch and every delete_file has completed, and
\* nothing of update() runs after the firmware step; an attempt that failed
\* in a file phase has started none; and when the firmware body was streamed
\* without error, ota_finish has been called and update has returned 2,
\* whatever the digest of the body.
C17_FirmwareLastUnverified ==
    /\ obs.ota # "none" => FilePhasesDone /\ pc = "done"
    /\ exit \in {"return0", "return1", "raised_backup", "raised_commit", "raised_delete"}
          => obs.ota = "none"
    /\ (lastOp.op = "write_firmware" /\ lastOp.dl) =>
          obs.ota = "finished" /\ ret = 2 /\ exit = "return2"
    /\ (pc = "done" /\ obs.ota = "finished") => ret = 2

\* an attempt that committed a file, moved another to .bak_del and then
\* flashed a firmware body whose digest is not 0
C17_Witness ==
    /\ lastOp.op = "write_firmware"
    /\ lastOp.ok
    /\ lastOp.hash # 0
    /\ ret = 2
    /\ obs.committed # {}
    /\ "delete" \in DOMAIN manifest

(***************************************************************************)
(* Properties of the transport target (SpecTarget).                        *)
(***************************************************************************)
\* C20: no step of update() other than the firmware step changes ip or
\* port; the firmware step sets them to the host and port of the firmware
\* URL ("fw", 81 for "http://fw:81/f"; "fw2", 443 for "https://fw2/f" which
\* names no port); and every request (manifest fetch, file download,
\* firmware transfer) is sent to the ip and port the object then has, so
\* after a firmware step the requests that follow, the manifest fetch of
\* the next attempt included, go to the firmware URL's host and port.
C20_TargetSetByFirmwareOnly ==
    /\ [][/\ pc # "firmware" => ip' = ip /\ port' = port
          /\ pc = "firmware" =>
                /\ manifest.firmware.URL = UrlWithPort =>
                      ip' = <<"f", "w">> /\ port' = 81
                /\ manifest.firmware.URL = UrlWithoutPort =>
                      ip' = <<"f", "w", "2">> /\ port' = 443
                /\ lastOp'.to = [ip |-> ip', port |-> port']
          /\ pc \in {"manifest", "stage"} => lastOp'.to = [ip |-> ip, port |-> port]]_vars
    /\ [](lastOp.to # Nowhere => lastOp.to = Target)

\* the manifest fetch of a second attempt, sent to "fw2", port 443, after
\* the first attempt flashed the firmware of "https://fw2/f"
C20_Witness ==
    /\ updates = 2
    /\ lastOp.op = "get_update_manifest"
    /\ lastOp.to = [ip |-> <<"f", "w", "2">>, port |-> 443]

(***************************************************************************)
(* Properties of get_data() (SpecGet).                                     *)
(***************************************************************************)
\* the bytes of a response after its first separator
BodyOf(r) == SubSeq(r, find(r, SEP) + Len(SEP) + 1, Len(r))

\* the bytes written to the sinks
Written == gd.content \o gd.file \o gd.flash

\* C13: at most one digest context is open at any time; none is open when
\* get_data has returned or raised, wherever it failed, nor while the next
\* call connects and sets up its sink, so the context a call creates is the
\* only one.
C13_DigestContextFinalized ==
    /\ gd.ctx <= 1
    /\ gd.pc \in {"idle", "connect", "setup"} => gd.ctx = 0
    /\ gd.pc = "recv" => gd.ctx = 1 /\ gd.h

\* a second call that has created its context after the first call failed
\* in mid-stream, with its own context created
C13_Witness ==
    /\ gd.calls = 2
    /\ gd.pc = "recv"
    /\ gd.ctx = 1
    /\ gd.out = "raised"
    /\ gd.at \in {"recv", "write"}

\* C14 (as claimed): when get_data has returned or raised, the socket it
\* opened is closed, the file it opened is closed and the flash-write
\* session it started has been finished.
C14_ResourcesReleased ==
    gd.pc = "idle" =>
        /\ gd.sock # "open"
        /\ gd.fp # "open"
        /\ gd.ota # "started"

\* C15 (as claimed): when get_data returns for a response that contains the
\* separator, however the response was cut into chunks, the bytes written to
\* the sink are exactly those after the first separator, and so are the
\* bytes fed to the digest when hash is set.
C15_BodyIsAllAfterFirstSeparator ==
    (gd.pc = "idle" /\ gd.out = "returned" /\ find(gd.resp, SEP) > -1) =>
        /\ Written = BodyOf(gd.resp)
        /\ gd.hash => gd.fed = BodyOf(gd.resp)

\* C16: body bytes go to one sink, the one the arguments select (the
\* bytearray without dest_path and firmware, the file with dest_path, the
\* flash-write session with firmware); a call with dest_path and firmware
\* both set never opens the file, never starts a flash-write session and
\* writes nothing: it raises at the argument check (or earlier, at connect).
C16_OneSink ==
    /\ gd.content # <<>> => ~gd.dest /\ ~gd.firmware /\ gd.file = <<>> /\ gd.flash = <<>>
    /\ gd.file # <<>> => gd.dest /\ ~gd.firmware /\ gd.fp # "none" /\ gd.flash = <<>>
    /\ gd.flash # <<>> => gd.firmware /\ ~gd.dest /\ gd.ota # "none" /\ gd.file = <<>>
    /\ (gd.dest /\ gd.firmware) =>
          /\ gd.pc \in {"idle", "connect", "setup"}
          /\ gd.fp = "none"
          /\ gd.ota = "none"
          /\ Written = <<>>
          /\ gd.pc = "idle" => gd.out = "raised" /\ gd.at \in {"connect", "args"}

\* a second call, with dest_path and firmware, that was rejected at the
\* argument check
C16_Witness ==
    /\ gd.calls = 2
    /\ gd.dest
    /\ gd.firmware
    /\ gd.pc = "idle"
    /\ gd.at = "args"

(***************************************************************************)
(* Properties of update_device_network_config() (SpecNet).                 *)
(***************************************************************************)
\* C18 (as claimed): machine.reset() is called only after the merged
\* configuration was serialized and written to the configuration file: not
\* when the fetch failed, not when the response has no networkConfig, not
\* when the merge or the write failed.
C18_ResetOnlyAfterWrite ==
    nc.reset =>
        /\ nc.fetched
        /\ "networkConfig" \in DOMAIN nc.resp
        /\ nc.merged
        /\ nc.stored = dumps(nc.config)

====
